---- MODULE Spec2Model ----
(***************************************************************************)
(* UNSW Predators downloader: the stratified Sampler (get_sampled_files),  *)
(* the progress monitor and the organizing step of download_unsw.py, and   *)
(* the organize-only script organize_unsw.py.                              *)
(*                                                                         *)
(* A file name is a sequence of characters; "/" separates path segments.   *)
(* A dict is a sequence of records in insertion order.                     *)
(*                                                                         *)
(* One program runs at a time: main() and organize_unsw.py are not started *)
(* while the other runs, and no file lands in the staging directory while  *)
(* organize_unsw.py runs. Files land at any other time, also while main()  *)
(* and its monitor thread run.                                             *)
(***************************************************************************)
EXTENDS Integers, Sequences, FiniteSets, TLC

\* ------------------------------------------------------------------------
\* Bounds of the model

\* longest annotation list of the metadata handed to main()
MaxAnn == 2

\* longest annotation list of the metadata handed to the two Sampler runs
MaxSampleAnn == 4

\* ------------------------------------------------------------------------
\* Configuration (download_unsw.py, "CONFIG")

\* 0.5 as the rational <<numerator, denominator>>
SAMPLE_FRACTION == <<1, 2>>

RANDOM_SEED == 42

DESIRED_CLASSES == {"dingo", "fox", "goanna", "possum", "quoll"}

\* ------------------------------------------------------------------------
\* Strings and paths

Max(a, b) == IF a >= b THEN a ELSE b

\* str.lower() on one character
LowerChar(c) == CASE c = "A" -> "a" [] c = "B" -> "b" [] c = "D" -> "d" [] OTHER -> c

\* str.lower()
Lower(s) == [i \in 1..Len(s) |-> LowerChar(s[i])]

\* os.path.basename(): what follows the last "/"
Basename(p) ==
    LET slashes == {i \in 1..Len(p) : p[i] = "/"}
        last == IF slashes = {} THEN 0 ELSE CHOOSE i \in slashes : \A j \in slashes : j <= i
    IN  SubSeq(p, last + 1, Len(p))

\* ------------------------------------------------------------------------
\* The generator behind random.seed / random.sample: a deterministic
\* function of its state (a small linear congruential generator stands for
\* the library's generator).

RandNext(s) == (13 * s + 7) % 64

\* mutant of seed_generator: the seed is ignored, the generator keeps the
\* state the process started with
seed_generator_unseeded(rng, seed) == rng

\* random.seed(RANDOM_SEED)
seed_generator(rng, seed) == seed % 64

\* random.sample(population, k): k draws from a shrinking pool
RECURSIVE sample_loop(_, _, _, _, _, _)
sample_loop(pool, n, k, i, result, rng) ==
    IF i = k THEN [result |-> result, rng |-> rng]
    ELSE LET s == RandNext(rng)
             j == ((s \div 4) % (n - i)) + 1
         IN  sample_loop([pool EXCEPT ![j] = pool[n - i]], n, k, i + 1,
                         Append(result, pool[j]), s)

random_sample(population, k, rng) ==
    sample_loop(population, Len(population), k, 0, <<>>, rng)

\* ------------------------------------------------------------------------
\* Dicts in insertion order: sequences of [key, val]

Keys(d) == {d[i].key : i \in 1..Len(d)}

Get(d, k) == d[CHOOSE i \in 1..Len(d) : d[i].key = k].val

\* d[k] = v: an existing key keeps its position
Put(d, k, v) ==
    IF k \in Keys(d)
    THEN [i \in 1..Len(d) |-> IF d[i].key = k THEN [key |-> k, val |-> v] ELSE d[i]]
    ELSE Append(d, [key |-> k, val |-> v])

\* ------------------------------------------------------------------------
\* 2. Sample files reproducibly

\* {c['id']: c['name'] for c in data['categories']}
cat_id_to_name(data) ==
    [id \in {data.categories[i].id : i \in 1..Len(data.categories)} |->
        LET last == CHOOSE i \in 1..Len(data.categories) :
                        /\ data.categories[i].id = id
                        /\ \A j \in 1..Len(data.categories) :
                              data.categories[j].id = id => j <= i
        IN  data.categories[last].name]

\* {img['id']: img['file_name'] for img in data['images']}
img_id_to_file(data) ==
    [id \in {data.images[i].id : i \in 1..Len(data.images)} |->
        LET last == CHOOSE i \in 1..Len(data.images) :
                        /\ data.images[i].id = id
                        /\ \A j \in 1..Len(data.images) :
                              data.images[j].id = id => j <= i
        IN  data.images[last].file_name]

\* file_to_class: annotations folded in order, the last one of a file wins
RECURSIVE file_to_class_loop(_, _, _)
file_to_class_loop(data, i, acc) ==
    IF i > Len(data.annotations) THEN acc
    ELSE LET ann == data.annotations[i]
         IN  file_to_class_loop(data, i + 1,
                 Put(acc, img_id_to_file(data)[ann.image_id],
                          cat_id_to_name(data)[ann.category_id]))

file_to_class(data) == file_to_class_loop(data, 1, <<>>)

\* if cls in DESIRED_CLASSES: class_to_files[cls].append(fname)
class_to_files_add(acc, fname, cls) ==
    IF cls \in DESIRED_CLASSES
    THEN Put(acc, cls, IF cls \in Keys(acc) THEN Append(Get(acc, cls), fname) ELSE <<fname>>)
    ELSE acc

RECURSIVE class_to_files_loop(_, _, _)
class_to_files_loop(ftc, i, acc) ==
    IF i > Len(ftc) THEN acc
    ELSE class_to_files_loop(ftc, i + 1, class_to_files_add(acc, ftc[i].key, ftc[i].val))

class_to_files(ftc) == class_to_files_loop(ftc, 1, <<>>)

\* mutant of sample_size: the floor alone, without the minimum of one
sample_size_floor(len) == (len * SAMPLE_FRACTION[1]) \div SAMPLE_FRACTION[2]

\* n = max(1, int(len(files) * SAMPLE_FRACTION))
sample_size(len) == Max(1, (len * SAMPLE_FRACTION[1]) \div SAMPLE_FRACTION[2])

\* for cls, files in class_to_files.items(): sampled[cls] = random.sample(files, n)
RECURSIVE sampled_loop(_, _, _, _)
sampled_loop(ctf, i, acc, rng) ==
    IF i > Len(ctf) THEN [sampled |-> acc, rng |-> rng]
    ELSE LET drawn == random_sample(ctf[i].val, sample_size(Len(ctf[i].val)), rng)
         IN  sampled_loop(ctf, i + 1, Put(acc, ctf[i].key, drawn.result), drawn.rng)

\* mutant of sample_file_exists: the persisted manifest is never found
sample_file_exists_never(file) == FALSE

\* os.path.exists(sample_file); the file is <<>> when absent, <<manifest>> when present
sample_file_exists(file) == file # <<>>

\* the sampling branch of get_sampled_files(data), in a process whose
\* generator is in state rng: the manifest it computes
fresh_sample(data, rng) ==
    sampled_loop(class_to_files(file_to_class(data)), 1, <<>>,
                 seed_generator(rng, RANDOM_SEED)).sampled

\* get_sampled_files around the sampling, whose outcome would be `fresh`: an
\* existing sample file is loaded, else the fresh manifest is written and
\* returned
load_or_sample(file, fresh) ==
    IF sample_file_exists(file)
    THEN [ret |-> file[1], file |-> file, wrote |-> FALSE]
    ELSE [ret |-> fresh, file |-> <<fresh>>, wrote |-> TRUE]

get_sampled_files(data, file, rng) == load_or_sample(file, fresh_sample(data, rng))

\* ------------------------------------------------------------------------
\* The file system: the flat staging directory unsw_raw_images (its entries
\* [key: file name, val: size in bytes] in the order a listing gives them),
\* the class directories under unsw_images_organized and the files in them
\* (<<class, file name>> -> size)

NoFiles == [n \in {} |-> 0]

WriteFile(dir, name, size) ==
    [n \in DOMAIN dir \cup {name} |-> IF n = name THEN size ELSE dir[n]]

\* a file is written into the staging directory: an entry of that name is
\* replaced where it is, a new entry takes place pos of the listing
StageFile(staged, name, size, pos) ==
    IF name \in Keys(staged) THEN Put(staged, name, size)
    ELSE SubSeq(staged, 1, pos - 1) \o <<[key |-> name, val |-> size]>>
            \o SubSeq(staged, pos, Len(staged))

\* a file leaves the staging directory, the other entries keep their order
UnstageFile(staged, name) == SelectSeq(staged, LAMBDA e : e.key # name)

\* shutil.move(src, dst) of the staged file `name` to base_dir/cls/name: it
\* raises when the class directory is missing and replaces a file already
\* at the destination
shutil_move(fs, name, cls) ==
    IF cls \notin fs.dirs
    THEN [fs EXCEPT !.exit = "FileNotFoundError: dst"]
    ELSE [fs EXCEPT !.raw = UnstageFile(fs.raw, name),
                    !.organized = WriteFile(fs.organized, <<cls, name>>, Get(fs.raw, name)),
                    !.overwrote = fs.overwrote \/ (<<cls, name>> \in DOMAIN fs.organized)]

\* ------------------------------------------------------------------------
\* organize_unsw.py

\* expected_files: basename_lower -> (full_path, class), later entries win
RECURSIVE expected_files_paths(_, _, _, _)
expected_files_paths(cls, paths, j, acc) ==
    IF j > Len(paths) THEN acc
    ELSE expected_files_paths(cls, paths, j + 1,
             Put(acc, Lower(Basename(paths[j])), <<paths[j], cls>>))

RECURSIVE expected_files_loop(_, _, _)
expected_files_loop(manifest, i, acc) ==
    IF i > Len(manifest) THEN acc
    ELSE expected_files_loop(manifest, i + 1,
             expected_files_paths(manifest[i].key, manifest[i].val, 1, acc))

expected_files(manifest) == expected_files_loop(manifest, 1, <<>>)

\* actual_files[f.name.lower()] = f.name over raw_dir.iterdir(): the name
\* listed last under a key stays. The dict is kept as a function, without
\* its order.
scan(staged) ==
    [k \in {Lower(staged[i].key) : i \in 1..Len(staged)} |->
        staged[CHOOSE i \in 1..Len(staged) :
                   /\ Lower(staged[i].key) = k
                   /\ \A j \in 1..Len(staged) : Lower(staged[j].key) = k => j <= i].key]

\* for cls in sampled_by_class.keys(): os.makedirs(os.path.join(base_dir, cls))
org_class_dirs(manifest) == Keys(manifest)

\* if src.exists() and src.stat().st_size > 0
org_movable(fs, name) == name \in Keys(fs.raw) /\ Get(fs.raw, name) > 0

\* the match-and-move loop over the keys of actual_files still to visit
RECURSIVE org_move_loop(_, _, _, _)
org_move_loop(actual, expected, todo, fs) ==
    IF todo = {} \/ fs.exit # "ok" THEN fs
    ELSE LET lower_name == CHOOSE k \in todo : TRUE
             real_name == actual[lower_name]
         IN  IF lower_name \in Keys(expected) /\ org_movable(fs, real_name)
             THEN LET after == shutil_move(fs, real_name, Get(expected, lower_name)[2])
                  IN  org_move_loop(actual, expected, todo \ {lower_name},
                          IF after.exit = "ok"
                          THEN [after EXCEPT !.moved = fs.moved + 1] ELSE after)
             ELSE org_move_loop(actual, expected, todo \ {lower_name}, fs)

\* the final stats: the coverage line divides by total_expected. The
\* coverage is in tenths of a percent, {} when the line was not printed.
final_stats(moved, total_expected) ==
    IF total_expected = 0
    THEN [prog |-> "organize", moved |-> moved, missing |-> {total_expected - moved},
          coverage |-> {}, exit |-> "ZeroDivisionError"]
    ELSE [prog |-> "organize", moved |-> moved, missing |-> {total_expected - moved},
          coverage |-> {(2000 * moved + total_expected) \div (2 * total_expected)},
          exit |-> "ok"]

\* ------------------------------------------------------------------------
\* download_unsw.py: the monitor and main()

\* the flattened (class, file) pairs of a manifest, in iteration order
RECURSIVE Entries(_)
Entries(manifest) ==
    IF manifest = <<>> THEN <<>>
    ELSE [i \in 1..Len(manifest[1].val) |->
              [cls |-> manifest[1].key, fname |-> manifest[1].val[i]]]
         \o Entries(Tail(manifest))

\* one pass of monitor_progress: total_done and total_expected
monitor_totals(manifest, staged) ==
    [done |-> Cardinality({i \in 1..Len(Entries(manifest)) :
                              Entries(manifest)[i].fname \in Keys(staged)}),
     expected |-> Len(Entries(manifest))]

\* mutant of main_class_dirs: no class directory is made
main_class_dirs_none == {}

\* for cls in DESIRED_CLASSES: os.makedirs(os.path.join(base_dir, cls))
main_class_dirs == DESIRED_CLASSES

\* the organizing loop of main(): if os.path.exists(src): shutil.move(src, dst)
RECURSIVE main_move_loop(_, _, _)
main_move_loop(entries, i, fs) ==
    IF i > Len(entries) \/ fs.exit # "ok" THEN fs
    ELSE IF entries[i].fname \in Keys(fs.raw)
         THEN LET after == shutil_move(fs, entries[i].fname, entries[i].cls)
              IN  main_move_loop(entries, i + 1,
                      IF after.exit = "ok"
                      THEN [after EXCEPT !.moved = fs.moved + 1] ELSE after)
         ELSE main_move_loop(entries, i + 1, fs)

\* ------------------------------------------------------------------------
\* The metadata document: categories, images, annotations

CATEGORIES ==
    << [id |-> 1, name |-> "fox"], [id |-> 2, name |-> "dingo"], [id |-> 3, name |-> "cat"] >>

\* the images of the metadata main() is run on: one plain name, one with a
\* path segment and other letter case
MAIN_IMAGES ==
    << [id |-> 1, file_name |-> <<"a">>], [id |-> 2, file_name |-> <<"d", "/", "A">>] >>

\* the images of the metadata the two Sampler runs are given
SAMPLER_IMAGES ==
    << [id |-> 1, file_name |-> <<"a">>], [id |-> 2, file_name |-> <<"d", "/", "A">>],
       [id |-> 3, file_name |-> <<"b">>], [id |-> 4, file_name |-> <<"B">>] >>

Ids(table) == {table[i].id : i \in 1..Len(table)}

\* the annotations main()'s metadata may hold: any image in any category
MAIN_ANNOTATIONS == [image_id : Ids(MAIN_IMAGES), category_id : Ids(CATEGORIES)]

\* the annotations the Sampler runs' metadata may hold: any image as fox or
\* dingo, and the last image as cat, a class that is not desired
SAMPLER_ANNOTATIONS ==
    [image_id : Ids(SAMPLER_IMAGES), category_id : {1, 2}]
        \cup {[image_id |-> 4, category_id |-> 3]}

\* the metadata documents with at most maxAnn of the given annotations
Metadata(images, annotations, maxAnn) ==
    {[categories |-> CATEGORIES, images |-> images, annotations |-> anns] :
        anns \in UNION {[1..k -> annotations] : k \in 0..maxAnn}}

\* the names a file may land under in the staging directory, and its sizes
STAGED_NAMES == {<<"a">>, <<"A">>, <<"b">>}

FILE_SIZES == {0, 1}

\* the states the generator may be in when a process starts
START_RNG == {7, 42}

\* what the sampling branch gives on the inputs main() may be run with
MainSamples ==
    {fresh_sample(data, rng) : data \in Metadata(MAIN_IMAGES, MAIN_ANNOTATIONS, MaxAnn), rng \in START_RNG}

\* ------------------------------------------------------------------------
\* State

VARIABLES
    sampleFile,        \* sampled_files.json: <<>> when absent, <<manifest>> when present
    raw,               \* unsw_raw_images: its entries [key: file name, val: size]
    organized,         \* unsw_images_organized: <<class, file name>> -> size
    dirs,              \* the class directories under unsw_images_organized
    mainPc,            \* main(): "idle", "copy", "wait", "move"
    sampled_by_class,  \* main()'s manifest
    monPc,             \* monitor_progress: "none", "polling", "stopped" (it left its loop)
    orgPc,             \* organize_unsw.py: "idle", "move"
    org_sampled,       \* organize_unsw.py's manifest
    actual_files,      \* organize_unsw.py's scan of the staging directory
    report,            \* what the program started last printed of its organizing step, and how it ended
    quiet,             \* history: nothing changed the directories since organize_unsw.py last ended
    overwrote,         \* history: a move of the program started last replaced a file of the organized tree
    manifestWrites,    \* history: how often sampled_files.json was written
    inputsDiffer,      \* history: main()'s Sampler call loaded a manifest its inputs would not give
    sdata,             \* the metadata of the two independent Sampler runs
    sout               \* run -> <<>> before the run, <<manifest>> after it

vars == << sampleFile, raw, organized, dirs, mainPc, sampled_by_class, monPc, orgPc,
           org_sampled, actual_files, report, quiet, overwrote, manifestWrites,
           inputsDiffer, sdata, sout >>

programVars == << sampleFile, raw, organized, dirs, mainPc, sampled_by_class, monPc, orgPc,
                  org_sampled, actual_files, report, quiet, overwrote, manifestWrites,
                  inputsDiffer >>

samplerVars == << sdata, sout >>

NoReport == [prog |-> "none", moved |-> 0, missing |-> {}, coverage |-> {}, exit |-> "ok"]

ProgramInit ==
    /\ sampleFile = <<>>
    /\ raw = <<>>
    /\ organized = NoFiles
    /\ dirs = {}
    /\ mainPc = "idle"
    /\ sampled_by_class = <<>>
    /\ monPc = "none"
    /\ orgPc = "idle"
    /\ org_sampled = <<>>
    /\ actual_files = NoFiles
    /\ report = NoReport
    /\ quiet = FALSE
    /\ overwrote = FALSE
    /\ manifestWrites = 0
    /\ inputsDiffer = FALSE

Init ==
    /\ ProgramInit
    /\ sdata = [categories |-> CATEGORIES, images |-> SAMPLER_IMAGES, annotations |-> <<>>]
    /\ sout = [i \in {1, 2} |-> <<>>]

\* the file system as the move loops see it
Fs == [raw |-> raw, organized |-> organized, dirs |-> dirs, overwrote |-> overwrote,
       moved |-> 0, exit |-> "ok"]

\* the daemon thread ends with the process
MonitorAtExit == "none"

\* ------------------------------------------------------------------------
\* The external copy tool, or anything else, puts a file into the staging
\* directory (not while organize_unsw.py runs)
Land(name, size) ==
    /\ orgPc = "idle"
    /\ \E pos \in (IF name \in Keys(raw) THEN {1} ELSE 1..(Len(raw) + 1)) :
          raw' = StageFile(raw, name, size, pos)
    /\ quiet' = FALSE
    /\ UNCHANGED << sampleFile, organized, dirs, mainPc, sampled_by_class, monPc, orgPc,
                    org_sampled, actual_files, report, overwrote, manifestWrites,
                    inputsDiffer, samplerVars >>

\* main() up to the start of the external copy: the manifest is sampled or
\* loaded, the monitor thread is started
MainStart ==
    /\ mainPc = "idle"
    /\ orgPc = "idle"
    /\ \E fresh \in MainSamples :
          LET r == load_or_sample(sampleFile, fresh)
          IN  /\ sampleFile' = r.file
              /\ sampled_by_class' = r.ret
              /\ manifestWrites' = IF r.wrote THEN manifestWrites + 1 ELSE manifestWrites
              /\ inputsDiffer' = (r.ret # fresh)
    /\ mainPc' = "copy"
    /\ monPc' = "polling"
    /\ report' = NoReport
    /\ overwrote' = FALSE
    /\ UNCHANGED << raw, organized, dirs, orgPc, org_sampled, actual_files, quiet,
                    samplerVars >>

\* subprocess.run returns (whatever its exit code)
GsutilReturn ==
    /\ mainPc = "copy"
    /\ mainPc' = "wait"
    /\ UNCHANGED << sampleFile, raw, organized, dirs, sampled_by_class, monPc, orgPc,
                    org_sampled, actual_files, report, quiet, overwrote, manifestWrites,
                    inputsDiffer, samplerVars >>

\* subprocess.run raises FileNotFoundError: main() returns
GsutilNotFound ==
    /\ mainPc = "copy"
    /\ mainPc' = "idle"
    /\ monPc' = MonitorAtExit
    /\ sampled_by_class' = <<>>
    /\ inputsDiffer' = FALSE
    /\ UNCHANGED << sampleFile, raw, organized, dirs, orgPc, org_sampled, actual_files,
                    report, quiet, overwrote, manifestWrites, samplerVars >>

\* time.sleep(2), then the class directories are made
MainMkdirs ==
    /\ mainPc = "wait"
    /\ dirs' = dirs \cup main_class_dirs
    /\ mainPc' = "move"
    /\ quiet' = FALSE
    /\ UNCHANGED << sampleFile, raw, organized, sampled_by_class, monPc, orgPc, org_sampled,
                    actual_files, report, overwrote, manifestWrites, inputsDiffer,
                    samplerVars >>

\* the organizing loop of main(), then main() returns
MainMoveAll ==
    /\ mainPc = "move"
    /\ LET fs == main_move_loop(Entries(sampled_by_class), 1, Fs)
       IN  /\ raw' = fs.raw
           /\ organized' = fs.organized
           /\ overwrote' = fs.overwrote
           /\ report' = [prog |-> "main", moved |-> fs.moved, missing |-> {},
                         coverage |-> {}, exit |-> fs.exit]
    /\ mainPc' = "idle"
    /\ monPc' = MonitorAtExit
    /\ sampled_by_class' = <<>>
    /\ quiet' = FALSE
    /\ inputsDiffer' = FALSE
    /\ UNCHANGED << sampleFile, dirs, orgPc, org_sampled, actual_files, manifestWrites,
                    samplerVars >>

\* one pass of the monitor's loop
MonitorPoll ==
    /\ monPc = "polling"
    /\ LET t == monitor_totals(sampled_by_class, raw)
       IN  monPc' = IF t.done >= t.expected THEN "stopped" ELSE "polling"
    /\ UNCHANGED << sampleFile, raw, organized, dirs, mainPc, sampled_by_class, orgPc,
                    org_sampled, actual_files, report, quiet, overwrote, manifestWrites,
                    inputsDiffer, samplerVars >>

\* organize_unsw.py up to the match-and-move loop: the manifest is loaded
\* (open() raises when it is absent), the staging directory scanned, the
\* class directories made
OrgPrepare ==
    /\ orgPc = "idle"
    /\ mainPc = "idle"
    /\ IF sampleFile = <<>>
       THEN /\ report' = [prog |-> "organize", moved |-> 0, missing |-> {},
                          coverage |-> {}, exit |-> "FileNotFoundError: sampled_files.json"]
            /\ UNCHANGED << orgPc, org_sampled, actual_files, dirs >>
       ELSE /\ org_sampled' = sampleFile[1]
            /\ actual_files' = scan(raw)
            /\ dirs' = dirs \cup org_class_dirs(sampleFile[1])
            /\ orgPc' = "move"
            /\ report' = NoReport
    /\ overwrote' = FALSE
    /\ UNCHANGED << sampleFile, raw, organized, mainPc, sampled_by_class, monPc, quiet,
                    manifestWrites, inputsDiffer, samplerVars >>

\* the match-and-move loop and the final stats
OrgMoveAll ==
    /\ orgPc = "move"
    /\ LET expected == expected_files(org_sampled)
           fs == org_move_loop(actual_files, expected, DOMAIN actual_files, Fs)
       IN  /\ raw' = fs.raw
           /\ organized' = fs.organized
           /\ overwrote' = fs.overwrote
           /\ report' = IF fs.exit = "ok" THEN final_stats(fs.moved, Len(expected))
                        ELSE [prog |-> "organize", moved |-> fs.moved, missing |-> {},
                              coverage |-> {}, exit |-> fs.exit]
    /\ orgPc' = "idle"
    /\ org_sampled' = <<>>
    /\ actual_files' = NoFiles
    /\ quiet' = TRUE
    /\ UNCHANGED << sampleFile, dirs, mainPc, sampled_by_class, monPc, manifestWrites,
                    inputsDiffer, samplerVars >>

Next ==
    \/ \E name \in STAGED_NAMES, size \in FILE_SIZES : Land(name, size)
    \/ MainStart
    \/ GsutilReturn
    \/ GsutilNotFound
    \/ MainMkdirs
    \/ MainMoveAll
    \/ MonitorPoll
    \/ OrgPrepare
    \/ OrgMoveAll

Spec == Init /\ [][Next]_vars

\* a started process runs on: the copy returns, main() and the monitor take
\* their steps, organize_unsw.py finishes. Starting a program and files
\* landing are left to the environment.
FairSpec ==
    /\ Spec
    /\ WF_vars(GsutilReturn)
    /\ WF_vars(MainMkdirs)
    /\ WF_vars(MainMoveAll)
    /\ WF_vars(MonitorPoll)
    /\ WF_vars(OrgMoveAll)

\* ------------------------------------------------------------------------
\* Two independent runs of the Sampler on the same metadata, each in a fresh
\* process (its generator in any start state) and a directory without a
\* sample file

SamplerInit ==
    /\ ProgramInit
    /\ sdata \in Metadata(SAMPLER_IMAGES, SAMPLER_ANNOTATIONS, MaxSampleAnn)
    /\ sout = [i \in {1, 2} |-> <<>>]

SamplerRun(i) ==
    /\ sout[i] = <<>>
    /\ \E rng \in START_RNG :
          sout' = [sout EXCEPT ![i] = <<get_sampled_files(sdata, <<>>, rng).ret>>]
    /\ UNCHANGED << sdata, programVars >>

SamplerNext == \E i \in {1, 2} : SamplerRun(i)

SamplerSpec == SamplerInit /\ [][SamplerNext]_vars

\* ------------------------------------------------------------------------
\* Properties

\* an organize_unsw.py run ends in this step
OrgRunEnds == orgPc = "move" /\ orgPc' = "idle"

\* C1: when the expected index is empty, organize_unsw.py ends normally and
\* reports moved = 0, missing = 0 and coverage = 0.
C1_EmptyIndexReportsZero ==
    [][(OrgRunEnds /\ expected_files(org_sampled) = <<>>)
          => /\ report'.exit = "ok"
             /\ report'.moved = 0
             /\ report'.missing = {0}
             /\ report'.coverage = {0}]_vars

\* C2: no step of the program takes a staged file of size 0 out of the
\* staging directory, and no file of size 0 is in the organized tree.
C2_ZeroByteNeverMoved ==
    [][/\ \A n \in Keys(raw) : Get(raw, n) = 0 => n \in Keys(raw')
       /\ \A p \in DOMAIN organized' : organized'[p] > 0]_vars

\* C3: an organize_unsw.py run that follows another one, with nothing
\* changed in between, leaves the organized tree as it was and reports
\* moved = 0.
C3_SecondRunMovesNothing ==
    [][(OrgRunEnds /\ quiet) => (organized' = organized /\ report'.moved = 0)]_vars

\* the manifest entries a staged name matches: same lowercased basename
MatchingEntries(manifest, name) ==
    {i \in 1..Len(Entries(manifest)) :
        Lower(Basename(Entries(manifest)[i].fname)) = Lower(name)}

\* C4: an organize_unsw.py run moves every non-empty staged file whose
\* lowercased name is the lowercased basename of a manifest entry to
\* <class of such an entry>/<staged name>, and leaves every staged file
\* without such an entry where and as it is.
C4_EveryMatchingFileMoved ==
    [][OrgRunEnds =>
          \A n \in Keys(raw) :
             IF MatchingEntries(org_sampled, n) = {}
             THEN n \in Keys(raw') /\ Get(raw', n) = Get(raw, n)
             ELSE Get(raw, n) > 0 =>
                     /\ n \notin Keys(raw')
                     /\ \E i \in MatchingEntries(org_sampled, n) :
                           /\ <<Entries(org_sampled)[i].cls, n>> \in DOMAIN organized'
                           /\ organized'[<<Entries(org_sampled)[i].cls, n>>] = Get(raw, n)]_vars

\* the files the metadata's annotations leave in a class: the category of
\* the last annotation of a file decides
FilesOfClass(data, cls) ==
    LET fileOf(i) == (CHOOSE im \in {data.images[k] : k \in 1..Len(data.images)} :
                          im.id = data.annotations[i].image_id).file_name
        classOf(i) == (CHOOSE c \in {data.categories[k] : k \in 1..Len(data.categories)} :
                          c.id = data.annotations[i].category_id).name
    IN  {fileOf(i) : i \in {i \in 1..Len(data.annotations) :
                               /\ classOf(i) = cls
                               /\ \A j \in 1..Len(data.annotations) :
                                     fileOf(j) = fileOf(i) => j <= i}}

\* C5: every class of a sampled manifest appears once and lists exactly
\* max(1, floor(n * fraction)) pairwise distinct files of that class, n being
\* the number of files of the class; a desired class without files is absent.
C5_FractionInvariant ==
    \A r \in {1, 2} :
       sout[r] # <<>> =>
          LET m == sout[r][1]
          IN  /\ \A i, j \in 1..Len(m) : m[i].key = m[j].key => i = j
              /\ \A i \in 1..Len(m) :
                    LET n == Cardinality(FilesOfClass(sdata, m[i].key))
                        files == m[i].val
                    IN  /\ Len(files) = Max(1, (n * SAMPLE_FRACTION[1]) \div SAMPLE_FRACTION[2])
                        /\ \A a, b \in 1..Len(files) : files[a] = files[b] => a = b
                        /\ \A a \in 1..Len(files) : files[a] \in FilesOfClass(sdata, m[i].key)
              /\ \A c \in DESIRED_CLASSES : FilesOfClass(sdata, c) = {} => c \notin Keys(m)

\* a run sampled two of the four files of a class and left out a desired
\* class without files
C5_Witness ==
    /\ sout[1] # <<>>
    /\ \E i \in 1..Len(sout[1][1]) :
          Len(sout[1][1][i].val) = 2 /\ Cardinality(FilesOfClass(sdata, sout[1][1][i].key)) = 4
    /\ "dingo" \notin Keys(sout[1][1])

\* C6: a sample file that exists is never changed, it is written at most
\* once, and main()'s manifest is the persisted one whatever the inputs of
\* its Sampler call.
C6_PersistedManifestWins ==
    /\ [][sampleFile # <<>> => sampleFile' = sampleFile]_vars
    /\ [](manifestWrites <= 1)
    /\ [](mainPc # "idle" => sampleFile = <<sampled_by_class>>)

\* main() got the persisted manifest from a Sampler call whose inputs would
\* have given another one
C6_Witness ==
    /\ mainPc = "copy"
    /\ inputsDiffer
    /\ manifestWrites = 1
    /\ sampleFile = <<sampled_by_class>>

\* C7: two independent Sampler runs on the same metadata return the same
\* manifest: the same classes and files in the same order.
C7_Determinism == (sout[1] # <<>> /\ sout[2] # <<>>) => sout[1] = sout[2]

\* both runs are done, the manifest has two classes, and the second class's
\* draw is not the one a freshly seeded generator makes: it depends on the
\* draw for the class before it
C7_Witness ==
    /\ sout[1] # <<>>
    /\ sout[2] # <<>>
    /\ Len(sout[1][1]) = 2
    /\ LET ctf == class_to_files(file_to_class(sdata))
       IN  sout[1][1][2].val #
              random_sample(ctf[2].val, sample_size(Len(ctf[2].val)),
                            seed_generator(0, RANDOM_SEED)).result

\* C8: when an organizing step is at its move loop, a directory exists for
\* every class of its manifest, and no organizing step ends on a move into
\* a missing directory.
C8_ClassDirsBeforeMoves ==
    /\ mainPc = "move" => Keys(sampled_by_class) \subseteq dirs
    /\ orgPc = "move" => Keys(org_sampled) \subseteq dirs
    /\ report.exit # "FileNotFoundError: dst"

\* main() is at its move loop with a manifest loaded from the sample file,
\* and a class of the manifest has no staged file
C8_Witness ==
    /\ mainPc = "move"
    /\ inputsDiffer
    /\ Len(sampled_by_class) = 2
    /\ \E i \in 1..Len(sampled_by_class) :
          \A j \in 1..Len(sampled_by_class[i].val) :
             sampled_by_class[i].val[j] \notin Keys(raw)
    /\ \E i \in 1..Len(Entries(sampled_by_class)) :
          Entries(sampled_by_class)[i].fname \in Keys(raw)

\* C9: no move replaces a file that is already in the organized tree.
C9_NeverOverwrites == ~overwrote

\* every expected file is where the monitor looks for it, after the
\* external copy has returned
AllDelivered ==
    /\ mainPc = "wait"
    /\ sampled_by_class # <<>>
    /\ \A i \in 1..Len(Entries(sampled_by_class)) :
          Entries(sampled_by_class)[i].fname \in Keys(raw)

\* C10: once every expected file is delivered, the monitor eventually sees
\* total_done >= total_expected and leaves its loop.
C10_MonitorStops == (monPc = "polling" /\ AllDelivered) ~> (monPc = "stopped")

====
